---- MODULE Spec2Model ----
(***************************************************************************)
(* Live multiplayer scrabble quiz (src/app.py): one shared SQLite store    *)
(* (players, scores, game_state) behind one connection that every session  *)
(* thread uses, player sessions that re-run the script on a one-second     *)
(* autorefresh or on a button click, and admin sessions that start, stop,  *)
(* advance and reset the round.  Every SQL statement is one atomic step;   *)
(* a script run is a sequence of such steps and runs of different          *)
(* sessions interleave between statements.                                 *)
(*                                                                         *)
(* Text is a sequence of one-character strings.  Times are integers in     *)
(* ticks, TicksPerSec ticks to the second.  Not modelled: the columns      *)
(* scores.id, scores.answered_at and players.created_at,                   *)
(* the session fields last_answer_correct and last_answer_time, the        *)
(* scramble and clue of a word, and the reads that only feed the page,     *)
(* but for the overall leaderboard and the timer, which have                *)
(* specifications of their own.                                            *)
(***************************************************************************)
EXTENDS Integers, Sequences, FiniteSets, TLC

\* Python None and SQL NULL.
None == -1

\* The canonical answers of WORDS, in order.
WORDS ==
    <<
       <<"E", "N", "G", "A", "G", "E", "M", "E", "N", "T">>,
       <<"W", "E", "L", "L", "B", "E", "I", "N", "G">>,
       <<"F", "L", "E", "X", "I", "B", "I", "L", "I", "T", "Y">>,
       <<"L", "E", "A", "D", "E", "R", "S", "H", "I", "P">>,
       <<"T", "R", "U", "S", "T">>,
       <<"H", "Y", "B", "R", "I", "D", "W", "O", "R", "K">>,
       <<"L", "E", "A", "R", "N", "I", "N", "G">>,
       <<"F", "E", "E", "D", "B", "A", "C", "K">>,
       <<"C", "U", "L", "T", "U", "R", "E">>,
       <<"M", "O", "T", "I", "V", "A", "T", "I", "O", "N">>,
       <<"A", "U", "T", "O", "N", "O", "M", "Y">>,
       <<"I", "N", "C", "L", "U", "S", "I", "O", "N">>,
       <<"R", "E", "C", "O", "G", "N", "I", "T", "I", "O", "N">>
    >>

\* len(WORDS) is 13 in the source; the model plays the first TOTAL_WORDS words.
TOTAL_WORDS == 2
\* Seconds per word.
TIME_LIMIT == 30
ADMIN_PIN == "hradmin"

\* Resolution of the model's timestamps, the seconds the clock advances in one
\* step of the model, and the last second the clock reaches.
TicksPerSec == 2
ClockStep == 20
MaxTime == 44
\* The largest player id the AUTOINCREMENT key hands out in the model.
MaxId == 2
\* The admin button clicks of one behaviour.
MaxClicks == 4

PlayerSessions == {"s1", "s2"}
AdminSessions == {"a1", "a2"}

Min(a, b) == IF a <= b THEN a ELSE b
Max(a, b) == IF a >= b THEN a ELSE b

-----------------------------------------------------------------------------
(* Text: str.strip() and str.upper().                                      *)

Whitespace == {" ", "\t"}
LowerCase == <<"a", "b", "c", "d", "e", "f", "g", "h", "i", "j", "k", "l", "m",
               "n", "o", "p", "q", "r", "s", "t", "u", "v", "w", "x", "y", "z">>
UpperCase == <<"A", "B", "C", "D", "E", "F", "G", "H", "I", "J", "K", "L", "M",
               "N", "O", "P", "Q", "R", "S", "T", "U", "V", "W", "X", "Y", "Z">>

RECURSIVE LStrip(_)
LStrip(t) == IF t # <<>> /\ Head(t) \in Whitespace THEN LStrip(Tail(t)) ELSE t

RECURSIVE RStrip(_)
RStrip(t) ==
    IF t # <<>> /\ t[Len(t)] \in Whitespace
    THEN RStrip(SubSeq(t, 1, Len(t) - 1))
    ELSE t

Strip(t) == RStrip(LStrip(t))

UpperChar(c) ==
    IF \E i \in 1..26 : LowerCase[i] = c
    THEN UpperCase[CHOOSE i \in 1..26 : LowerCase[i] = c]
    ELSE c

Upper(t) == [i \in 1..Len(t) |-> UpperChar(t[i])]

\* What a user types into the name box and into the answer box.
NameInputs ==
    { <<>>, <<" ">>, <<"A", "d", "a">>, <<" ", "A", "d", "a", " ">>, <<"B", "o">> }
\* The same, for sessions that all ask for one name.
OneName == { t \in NameInputs : Strip(t) \in {<<>>, <<"A", "d", "a">>} }

AnswerInputs ==
    { <<>>, <<" ", "\t">>, WORDS[1], WORDS[2],
      <<" ", "e", "n", "g", "a", "g", "e", "m", "e", "n", "t", " ">> }

PinInputs == {ADMIN_PIN, "guess"}

-----------------------------------------------------------------------------
(* Pure helpers of the store and of the game.                              *)

\* WORDS[current_index]["answer"], for a 0-based index.
Answer(i) == WORDS[i + 1]

\* (now - start_time).total_seconds(), in ticks.
Elapsed(start, t) == t - start

\* int(x) for x = e ticks: the fraction of a second is cut off, towards zero.
ToInt(e) == IF e >= 0 THEN e \div TicksPerSec ELSE -((-e) \div TicksPerSec)

\* A reading of the elapsed seconds rounded to the nearest, for comparison.
TimeElapsed_round(start, t) == (2 * Elapsed(start, t) + TicksPerSec) \div (2 * TicksPerSec)

\* time_elapsed = int(elapsed); time_left = max(0, TIME_LIMIT - time_elapsed).
TimeElapsed(start, t) == ToInt(Elapsed(start, t))
TimeLeft(start, t) == Max(0, TIME_LIMIT - TimeElapsed(start, t))

\* Variants of the judgement, for comparison: one that does not clamp the
\* time, one that does not trim the text, and one that accepts any text the
\* answer contains.
Judge_NoClamp(text, i, start, t) ==
    LET time_taken == Elapsed(start, t)
        is_correct == Upper(Strip(text)) = Upper(Answer(i))
    IN  [correct |-> is_correct,
         time_taken |-> IF is_correct THEN time_taken ELSE None]
Judge_NoStrip(text, i, start, t) ==
    LET time_taken == Min(Elapsed(start, t), TIME_LIMIT * TicksPerSec)
        is_correct == Upper(text) = Upper(Answer(i))
    IN  [correct |-> is_correct,
         time_taken |-> IF is_correct THEN time_taken ELSE None]
IsSubstring(u, a) ==
    \E k \in 0..(Len(a) - Len(u)) : SubSeq(a, k + 1, k + Len(u)) = u
Judge_Contains(text, i, start, t) ==
    LET time_taken == Min(Elapsed(start, t), TIME_LIMIT * TicksPerSec)
        is_correct == IsSubstring(Upper(Strip(text)), Upper(Answer(i)))
    IN  [correct |-> is_correct,
         time_taken |-> IF is_correct THEN time_taken ELSE None]

\* The body of the "Submit answer" branch up to save_score: the pair the code
\* passes on, is_correct and (time_taken if is_correct else None), in ticks.
Judge(text, i, start, t) ==
    LET time_taken == Min(Elapsed(start, t), TIME_LIMIT * TicksPerSec)
        user_answer == Upper(Strip(text))
        correct_answer == Upper(Answer(i))
        is_correct == user_answer = correct_answer
                      /\ time_taken <= TIME_LIMIT * TicksPerSec
    IN  [correct |-> is_correct,
         time_taken |-> IF is_correct THEN time_taken ELSE None]

\* A row of scores.
ScoreRow(pid, w, c, t) ==
    [player_id |-> pid, word_index |-> w, correct |-> c, time_taken |-> t]

\* A plain INSERT into a table without the UNIQUE key, for comparison.
save_score_noreplace(S, pid, w, c, t) == S \cup {ScoreRow(pid, w, c, t)}

\* INSERT OR REPLACE INTO scores: the row that holds the UNIQUE key
\* (player_id, word_index) is deleted, then the new row is inserted.
save_score(S, pid, w, c, t) ==
    {r \in S : ~(r.player_id = pid /\ r.word_index = w)} \cup {ScoreRow(pid, w, c, t)}

\* Whether save_score finds a row under its key.
HasRow(S, pid, w) == \E r \in S : r.player_id = pid /\ r.word_index = w
SaveOutcome(S, pid, w) == IF HasRow(S, pid, w) THEN "replaced" ELSE "inserted"

\* A check that finds every id, as if no row of players were ever missing.
player_exists_any(P, pid) == TRUE

\* FOREIGN KEY(player_id) REFERENCES players(id), and player_exists.
player_exists(P, pid) == \E p \in P : p.id = pid

\* UPDATE players SET last_seen = ? WHERE id = ?.
update_last_seen(P, pid, t) ==
    {IF p.id = pid THEN [p EXCEPT !.last_seen = t] ELSE p : p \in P}

\* An UPDATE that writes all three columns, None as NULL, for comparison.
set_game_state_all(g, current_word_index, question_start_time, is_active) ==
    [current_word_index |-> current_word_index,
     question_start_time |-> question_start_time,
     is_active |-> is_active]

\* UPDATE game_state SET ... : a field is written only when its argument is
\* not None.
set_game_state(g, current_word_index, question_start_time, is_active) ==
    [current_word_index |->
        IF current_word_index # None THEN current_word_index
        ELSE g.current_word_index,
     question_start_time |->
        IF question_start_time # None THEN question_start_time
        ELSE g.question_start_time,
     is_active |->
        IF is_active # None THEN is_active ELSE g.is_active]

\* The row init_db inserts and reset_all restores.
InitialGameState ==
    [current_word_index |-> 0, question_start_time |-> None, is_active |-> 0]

\* get_game_state: is_active comes back as a bool.
get_game_state(g) ==
    [current_word_index |-> g.current_word_index,
     question_start_time |-> g.question_start_time,
     is_active |-> (g.is_active # 0)]

-----------------------------------------------------------------------------
VARIABLES
    now,        \* the wall clock, in ticks
    players,    \* table players: rows [id, name, last_seen]
    nextId,     \* the next AUTOINCREMENT id of players
    scores,     \* table scores: rows [player_id, word_index, correct, time_taken]
    game_state, \* the single row of table game_state
    ps,         \* player sessions: st.session_state and the position of the run
    as,         \* admin sessions: st.session_state and the position of the run
    live,       \* the sessions that are connected
    last,       \* history: the step taken last, by whom, and its outcome
    clicks,     \* history: the admin button clicks so far
    page        \* what a page rendered last: the leaderboard or the timer

vars == <<now, players, nextId, scores, game_state, ps, as, live, last, clicks, page>>

\* A session that has not run: init_session_state.
NewPlayerSession ==
    [pc |-> "idle",
     player_id |-> None, player_name |-> <<>>,
     seen_word_index |-> -1, has_answered |-> FALSE,
     shown |-> None,       \* word whose Submit button the page shows enabled
     click |-> FALSE,      \* this run was started by the Submit button
     name |-> <<>>,        \* locals of the run
     idx |-> None, start |-> None, late |-> FALSE]

NewAdminSession ==
    [pc |-> "idle", is_admin |-> FALSE,
     idx |-> None,         \* local of the run
     mark |-> None]        \* history: the next player id when Reset was clicked

\* A value of last; text is what a delivered Submit click carried.
StepWith(op, who, res, text) == [op |-> op, who |-> who, res |-> res, text |-> text]
Step(op, who, res) == StepWith(op, who, res, <<>>)
\* The clock, a click, the PIN box and the first half of a join leave no record.
NoStep == Step("", "", "")

\* A value of page; nothing rendered yet.
Page(op, rows, time_elapsed, time_left) ==
    [op |-> op, rows |-> rows, time_elapsed |-> time_elapsed, time_left |-> time_left]
NoPage == Page("", <<>>, 0, 0)

InitWith(sessions) ==
    /\ now = 0
    /\ players = {}
    /\ nextId = 1
    /\ scores = {}
    /\ game_state = InitialGameState
    /\ ps = [s \in PlayerSessions |-> NewPlayerSession]
    /\ as = [a \in AdminSessions |-> NewAdminSession]
    /\ live = sessions
    /\ last = NoStep
    /\ clicks = 0
    /\ page = NoPage

Init == InitWith({"s1", "a1"})
InitPlayers == InitWith({"s1", "s2", "a1"})
InitAdmins == InitWith({"s1", "a1", "a2"})

-----------------------------------------------------------------------------
(* Player sessions: main(), the player flow.                               *)

\* The run ends (st.stop, the end of the script, or an exception); the page
\* shows the Submit button enabled for word b, or not at all (None).
EndRun(r, b) ==
    [r EXCEPT !.pc = "idle", !.click = FALSE, !.name = <<>>,
              !.idx = None, !.start = None, !.late = FALSE, !.shown = b]

Joined(s) == ps[s].player_id # None /\ ps[s].player_name # <<>>

\* ids the INSERTs that are under way will still take
PendingInserts == Cardinality({s \in PlayerSessions : ps[s].pc = "insert"})

\* A lookup that ignores case, for comparison.
FindPlayer_nocase(P, name) == {p \in P : Upper(p.name) = Upper(name)}

\* SELECT id FROM players WHERE name = ?.
FindPlayer(P, name) == {p \in P : p.name = name}

\* "Join Game" with the name box holding text: strip, the empty-name warning,
\* and the SELECT of get_or_create_player.
JoinGame(s, text) ==
    /\ s \in live
    /\ ps[s].pc = "idle"
    /\ ~Joined(s)
    /\ nextId + PendingInserts <= MaxId
    /\ LET name == Strip(text) IN
       IF name = <<>>
       THEN /\ last' = NoStep
            /\ UNCHANGED ps
       ELSE IF FindPlayer(players, name) # {}
       THEN LET row == CHOOSE p \in FindPlayer(players, name) : TRUE IN
            /\ ps' = [ps EXCEPT
                        ![s] = EndRun([@ EXCEPT !.player_id = row.id,
                                                !.player_name = name], None)]
            /\ last' = Step("join", s, "found")
       ELSE /\ ps' = [ps EXCEPT ![s] = [@ EXCEPT !.pc = "insert", !.name = name]]
            /\ last' = NoStep
    /\ UNCHANGED <<now, players, nextId, scores, game_state, as, live, clicks, page>>

\* The INSERT of get_or_create_player; UNIQUE(name) raises when another
\* session has inserted the name since the SELECT, and main() reports it.
InsertPlayer(s) ==
    /\ ps[s].pc = "insert"
    /\ IF \E p \in players : p.name = ps[s].name
       THEN /\ ps' = [ps EXCEPT ![s] = EndRun(@, None)]
            /\ last' = Step("insert", s, "unique")
            /\ UNCHANGED <<players, nextId>>
       ELSE /\ players' = players \cup {[id |-> nextId, name |-> ps[s].name,
                                       last_seen |-> now]}
            /\ nextId' = nextId + 1
            /\ ps' = [ps EXCEPT
                        ![s] = EndRun([@ EXCEPT !.player_id = nextId,
                                                !.player_name = ps[s].name], None)]
            /\ last' = Step("insert", s, "created")
    /\ UNCHANGED <<now, scores, game_state, as, live, clicks, page>>

\* A game-over test that is late by one word, for comparison.
GameOver_late(current_index) == current_index > TOTAL_WORDS

\* "if current_index >= TOTAL_WORDS": the game-over page.
GameOver(current_index) == current_index >= TOTAL_WORDS

\* A waiting test that looks at the start time alone, for comparison.
Waiting_StartOnly(g) == g.question_start_time = None

\* "if not is_active or start_time is None": the waiting page.
Waiting(g) == ~g.is_active \/ g.question_start_time = None

\* A run of a joined session, started by the autorefresh (click = FALSE) or by
\* the Submit button the page shows enabled (click = TRUE), up to its first
\* write to scores: player_exists, update_last_seen, get_game_state, the
\* reconciliation of
\* seen_word_index and has_answered, the game-over and waiting pages, and the
\* first reading of the clock.
Run(s, click) ==
    /\ s \in live
    /\ ps[s].pc = "idle"
    /\ Joined(s)
    /\ LET g == get_game_state(game_state)
           current_index == g.current_word_index
           start_time == g.question_start_time
           has_answered == IF ps[s].seen_word_index # current_index
                           THEN FALSE ELSE ps[s].has_answered
           r == [ps[s] EXCEPT !.seen_word_index = current_index,
                              !.has_answered = has_answered,
                              !.click = click]
           time_left == TimeLeft(start_time, now)
           disabled_input == has_answered \/ time_left <= 0
       IN
       IF ~player_exists(players, ps[s].player_id)
       THEN /\ ps' = [ps EXCEPT
                        ![s] = EndRun([@ EXCEPT !.player_id = None,
                                                !.player_name = <<>>], None)]
            /\ last' = Step("run", s, "unjoined")
       ELSE IF GameOver(current_index)
       THEN /\ ps' = [ps EXCEPT ![s] = EndRun(r, None)]
            /\ last' = Step("run", s, "over")
       ELSE IF Waiting(g)
       THEN /\ ps' = [ps EXCEPT ![s] = EndRun(r, None)]
            /\ last' = Step("run", s, "waiting")
       ELSE IF time_left <= 0 /\ ~has_answered
       THEN /\ ps' = [ps EXCEPT ![s] = [r EXCEPT !.pc = "auto",
                                                 !.idx = current_index,
                                                 !.start = start_time,
                                                 !.late = TRUE]]
            /\ last' = Step("run", s, "timeout")
       ELSE IF click
       THEN /\ ps' = [ps EXCEPT ![s] = [r EXCEPT !.pc = "button",
                                                 !.idx = current_index,
                                                 !.start = start_time,
                                                 !.late = (time_left <= 0)]]
            /\ last' = Step("run", s, "button")
       ELSE /\ ps' = [ps EXCEPT
                        ![s] = EndRun(r, IF disabled_input THEN None
                                         ELSE current_index)]
            /\ last' = Step("run", s, "shown")
    /\ players' = update_last_seen(players, ps[s].player_id, now)
    /\ UNCHANGED <<now, nextId, scores, game_state, as, live, clicks, page>>

Poll(s) == Run(s, FALSE)

ClickSubmit(s) == ps[s].shown # None /\ Run(s, TRUE)

\* An auto-record that leaves has_answered alone, for comparison.
AutoRecord_NoFlag(s) ==
    /\ ps[s].pc = "auto"
    /\ IF ~player_exists(players, ps[s].player_id)
       THEN /\ ps' = [ps EXCEPT ![s] = EndRun(@, None)]
            /\ last' = Step("auto", s, "foreign key")
            /\ UNCHANGED scores
       ELSE /\ scores' = save_score(scores, ps[s].player_id, ps[s].idx, FALSE, None)
            /\ ps' = [ps EXCEPT
                        ![s] = IF ps[s].click
                               THEN [@ EXCEPT !.pc = "button"]
                               ELSE EndRun(@, None)]
            /\ last' = Step("auto", s, SaveOutcome(scores, ps[s].player_id, ps[s].idx))
    /\ UNCHANGED <<now, players, nextId, game_state, as, live, clicks, page>>

\* The timeout auto-record: save_score(player_id, index, False, None), then
\* has_answered = True.  The FOREIGN KEY raises when the player is gone, and
\* the run ends there.
AutoRecord(s) ==
    /\ ps[s].pc = "auto"
    /\ IF ~player_exists(players, ps[s].player_id)
       THEN /\ ps' = [ps EXCEPT ![s] = EndRun(@, None)]
            /\ last' = Step("auto", s, "foreign key")
            /\ UNCHANGED scores
       ELSE /\ scores' = save_score(scores, ps[s].player_id, ps[s].idx, FALSE, None)
            /\ ps' = [ps EXCEPT
                        ![s] = IF ps[s].click
                               THEN [@ EXCEPT !.pc = "button", !.has_answered = TRUE]
                               ELSE EndRun([@ EXCEPT !.has_answered = TRUE], None)]
            /\ last' = Step("auto", s, SaveOutcome(scores, ps[s].player_id, ps[s].idx))
    /\ UNCHANGED <<now, players, nextId, game_state, as, live, clicks, page>>

\* The "Submit answer" button of a run the click started.  The click was made
\* on the page of the run before; when this run renders the button disabled,
\* whether st.button still returns the click is left open (delivered).  A
\* text box keyed by another word than the page showed holds no text.
Submit(s) ==
    /\ ps[s].pc = "button"
    /\ LET disabled_input == ps[s].has_answered \/ ps[s].late IN
       \E delivered \in (IF disabled_input THEN BOOLEAN ELSE {TRUE}),
          text \in (IF ps[s].shown = ps[s].idx THEN AnswerInputs ELSE {<<>>}) :
          IF ~delivered
          THEN /\ ps' = [ps EXCEPT ![s] = EndRun(@, None)]
               /\ last' = Step("submit", s, "disabled")
               /\ UNCHANGED scores
          ELSE LET j == Judge(text, ps[s].idx, ps[s].start, now)
                   r == [ps[s] EXCEPT !.has_answered = TRUE]
               IN
               IF ~player_exists(players, ps[s].player_id)
               THEN /\ ps' = [ps EXCEPT ![s] = EndRun(r, None)]
                    /\ last' = StepWith("submit", s, "foreign key", text)
                    /\ UNCHANGED scores
               ELSE /\ scores' = save_score(scores, ps[s].player_id, ps[s].idx,
                                            j.correct, j.time_taken)
                    /\ ps' = [ps EXCEPT ![s] = EndRun(r, None)]
                    /\ last' = StepWith("submit", s,
                                        SaveOutcome(scores, ps[s].player_id, ps[s].idx),
                                        text)
    /\ UNCHANGED <<now, players, nextId, game_state, as, live, clicks, page>>

-----------------------------------------------------------------------------
(* Admin sessions: render_admin_controls().                                *)

\* "Unlock admin" with the PIN box holding pin.
Unlock(a, pin) ==
    /\ a \in live
    /\ as[a].pc = "idle"
    /\ ~as[a].is_admin
    /\ IF pin = ADMIN_PIN
       THEN as' = [as EXCEPT ![a] = [@ EXCEPT !.is_admin = TRUE]]
       ELSE UNCHANGED as
    /\ last' = NoStep
    /\ UNCHANGED <<now, players, nextId, scores, game_state, ps, live, clicks, page>>

\* A run that one of the four buttons started: get_game_state, then the
\* branch that holds the button.  A click on a button this run does not reach
\* changes nothing and is left out.
AdminClick(a, button) ==
    /\ a \in live
    /\ as[a].pc = "idle"
    /\ as[a].is_admin
    /\ clicks < MaxClicks
    /\ clicks' = clicks + 1
    /\ LET g == get_game_state(game_state)
           idx == g.current_word_index
       IN
       /\ CASE button = "start" -> idx < TOTAL_WORDS /\ ~g.is_active
            [] button = "stop" -> idx < TOTAL_WORDS /\ g.is_active
            [] button = "next" -> idx < TOTAL_WORDS
            [] button = "reset" -> TRUE
       /\ as' = [as EXCEPT
                   ![a] = [@ EXCEPT !.pc = button, !.idx = idx,
                                    !.mark = IF button = "reset" THEN nextId ELSE None]]
    /\ last' = NoStep
    /\ UNCHANGED <<now, players, nextId, scores, game_state, ps, live, page>>

EndAdminRun(r) == [r EXCEPT !.pc = "idle", !.idx = None, !.mark = None]

\* A "Start round" that activates the round and leaves the start time alone.
StartRound_ActiveOnly(a) ==
    /\ as[a].pc = "start"
    /\ game_state' = set_game_state(game_state, None, None, 1)
    /\ as' = [as EXCEPT ![a] = EndAdminRun(@)]
    /\ last' = Step("start", a, "")
    /\ UNCHANGED <<now, players, nextId, scores, ps, live, clicks, page>>

\* "Start round": set_game_state(question_start_time=utcnow(), is_active=1).
StartRound(a) ==
    /\ as[a].pc = "start"
    /\ game_state' = set_game_state(game_state, None, now, 1)
    /\ as' = [as EXCEPT ![a] = EndAdminRun(@)]
    /\ last' = Step("start", a, "")
    /\ UNCHANGED <<now, players, nextId, scores, ps, live, clicks, page>>

\* "Stop round": set_game_state(is_active=0).
StopRound(a) ==
    /\ as[a].pc = "stop"
    /\ game_state' = set_game_state(game_state, None, None, 0)
    /\ as' = [as EXCEPT ![a] = EndAdminRun(@)]
    /\ last' = Step("stop", a, "")
    /\ UNCHANGED <<now, players, nextId, scores, ps, live, clicks, page>>

\* "Next word": set_game_state(current_word_index=min(idx + 1, TOTAL_WORDS),
\* question_start_time=None, is_active=0), idx being what this run read.
NextWord(a) ==
    /\ as[a].pc = "next"
    /\ LET new_idx == Min(as[a].idx + 1, TOTAL_WORDS) IN
       game_state' = set_game_state(game_state, new_idx, None, 0)
    /\ as' = [as EXCEPT ![a] = EndAdminRun(@)]
    /\ last' = Step("next", a, "")
    /\ UNCHANGED <<now, players, nextId, scores, ps, live, clicks, page>>

\* reset_all, statement by statement.  DELETE FROM scores.
ResetScores(a) ==
    /\ as[a].pc = "reset"
    /\ scores' = {}
    /\ as' = [as EXCEPT ![a] = [@ EXCEPT !.pc = "reset players"]]
    /\ last' = Step("reset scores", a, "")
    /\ UNCHANGED <<now, players, nextId, game_state, ps, live, clicks, page>>

\* DELETE FROM players; the FOREIGN KEY of a score written since the first
\* statement raises, and the run ends with the rest of reset_all undone.
ResetPlayers(a) ==
    /\ as[a].pc = "reset players"
    /\ IF \E r \in scores : player_exists(players, r.player_id)
       THEN /\ as' = [as EXCEPT ![a] = EndAdminRun(@)]
            /\ last' = Step("reset players", a, "foreign key")
            /\ UNCHANGED players
       ELSE /\ players' = {}
            /\ as' = [as EXCEPT ![a] = [@ EXCEPT !.pc = "reset state"]]
            /\ last' = Step("reset players", a, "")
    /\ UNCHANGED <<now, nextId, scores, game_state, ps, live, clicks, page>>

\* UPDATE game_state SET current_word_index = 0, question_start_time = NULL,
\* is_active = 0.
ResetState(a) ==
    /\ as[a].pc = "reset state"
    /\ game_state' = InitialGameState
    /\ as' = [as EXCEPT ![a] = EndAdminRun(@)]
    /\ last' = Step("reset", a, "")
    /\ UNCHANGED <<now, players, nextId, scores, ps, live, clicks, page>>

-----------------------------------------------------------------------------
\* The wall clock advances.
Tick ==
    /\ now + ClockStep * TicksPerSec <= MaxTime * TicksPerSec
    /\ now' = now + ClockStep * TicksPerSec
    /\ last' = NoStep
    /\ UNCHANGED <<players, nextId, scores, game_state, ps, as, live, clicks, page>>

NextWith(names) ==
    \/ Tick
    \/ \E s \in PlayerSessions :
          \/ \E text \in names : JoinGame(s, text)
          \/ InsertPlayer(s)
          \/ Poll(s)
          \/ ClickSubmit(s)
          \/ AutoRecord(s)
          \/ Submit(s)
    \/ \E a \in AdminSessions :
          \/ \E pin \in PinInputs : Unlock(a, pin)
          \/ \E button \in {"start", "stop", "next", "reset"} : AdminClick(a, button)
          \/ StartRound(a)
          \/ StopRound(a)
          \/ NextWord(a)
          \/ ResetScores(a)
          \/ ResetPlayers(a)
          \/ ResetState(a)

Next == NextWith(NameInputs)

\* One player session and one admin session.
Spec == Init /\ [][Next]_vars
\* Two player sessions that join under one name, and one admin session.
SpecPlayers == InitPlayers /\ [][NextWith(OneName)]_vars
\* One player session and two admin sessions.
SpecAdmins == InitAdmins /\ [][NextWith(OneName)]_vars

-----------------------------------------------------------------------------
(* The overall leaderboard: get_overall_leaderboard over tables of three   *)
(* players.                                                                *)

\* s.correct = 1 rows of the LEFT JOIN for player pid.
CorrectRows(S, pid) == {r \in S : r.player_id = pid /\ r.correct}

\* SUM(time_taken) over a set of rows.
RECURSIVE SumTime(_)
SumTime(R) ==
    IF R = {} THEN 0
    ELSE LET r == CHOOSE x \in R : TRUE IN r.time_taken + SumTime(R \ {r})

\* One group of GROUP BY p.id: name, correct_answers, total_time.
BoardRow(p, S) ==
    [name |-> p.name,
     correct_answers |-> Cardinality(CorrectRows(S, p.id)),
     total_time |-> SumTime(CorrectRows(S, p.id))]

\* ORDER BY correct_answers DESC, total_time ASC.
Ordered(q) ==
    \A i \in 1..Len(q), j \in 1..Len(q) :
        i < j => \/ q[i].correct_answers > q[j].correct_answers
                 \/ /\ q[i].correct_answers = q[j].correct_answers
                    /\ q[i].total_time <= q[j].total_time

\* The results of the query over the groups G: every arrangement of one row
\* per group that ORDER BY allows (SQL leaves the order of ties open).
Arrangements(G, S) ==
    LET n == Cardinality(G)
        picks == {f \in [1..n -> G] : \A i \in 1..n, j \in 1..n : f[i] = f[j] => i = j}
    IN  {q \in {[i \in 1..n |-> BoardRow(f[i], S)] : f \in picks} : Ordered(q)}

\* The same query with JOIN in place of LEFT JOIN, for comparison.
get_overall_leaderboard_join(P, S) ==
    Arrangements({p \in P : \E r \in S : r.player_id = p.id}, S)

\* FROM players p LEFT JOIN scores s ON p.id = s.player_id GROUP BY p.id.
get_overall_leaderboard(P, S) == Arrangements(P, S)

\* The tables the leaderboard is taken over: any of three players, and for
\* each (player, word) no row, an incorrect row, or a correct row with one of
\* two times.
BoardPlayers ==
    { [id |-> 1, name |-> <<"A", "d", "a">>],
      [id |-> 2, name |-> <<"B", "o">>, last_seen |-> 0],
      [id |-> 3, name |-> <<"C", "y">>, last_seen |-> 0] }
BoardCells == {"none", "wrong", "fast", "slow"}
BoardScores(P, f) ==
    { ScoreRow(k[1], k[2], f[k] \in {"fast", "slow"},
               CASE f[k] = "fast" -> 10 * TicksPerSec
                 [] f[k] = "slow" -> 20 * TicksPerSec
                 [] OTHER -> None) :
        k \in {x \in DOMAIN f : f[x] # "none"} }

InitBoard ==
    /\ now = 0
    /\ players \in SUBSET BoardPlayers
    /\ nextId = 4
    /\ \E f \in [{p.id : p \in players} \X (0..(TOTAL_WORDS - 1)) -> BoardCells] :
          scores = BoardScores(players, f)
    /\ game_state = InitialGameState
    /\ ps = [s \in PlayerSessions |-> NewPlayerSession]
    /\ as = [a \in AdminSessions |-> NewAdminSession]
    /\ live = {}
    /\ last = NoStep
    /\ clicks = 0
    /\ page = NoPage

\* show_leaderboard_section: a page renders the overall ranking.
ShowLeaderboard ==
    /\ page.op = ""
    /\ \E rows \in get_overall_leaderboard(players, scores) :
          page' = Page("leaderboard", rows, 0, 0)
    /\ UNCHANGED <<now, players, nextId, scores, game_state, ps, as, live, last, clicks>>

SpecBoard == InitBoard /\ [][ShowLeaderboard]_vars

-----------------------------------------------------------------------------
(* Joining: two player sessions that join under names that differ in case  *)
(* and in surrounding blanks, their polls, and an admin that resets.       *)

CaseNames ==
    { <<"A", "d", "a">>, <<"a", "d", "a">>, <<" ", "A", "d", "a", " ">> }

NextJoin ==
    \/ Tick
    \/ \E s \in PlayerSessions :
          \/ \E text \in CaseNames : JoinGame(s, text)
          \/ InsertPlayer(s)
          \/ Poll(s)
    \/ \E a \in AdminSessions :
          \/ \E pin \in PinInputs : Unlock(a, pin)
          \/ AdminClick(a, "reset")
          \/ ResetScores(a)
          \/ ResetPlayers(a)
          \/ ResetState(a)

SpecJoin == InitPlayers /\ [][NextJoin]_vars

-----------------------------------------------------------------------------
(* The timer: time_elapsed and time_left of an active round, read tick by  *)
(* tick from its start until past the time limit.                          *)

StartTimes == {0, 1, 2 * TicksPerSec + 1}

InitTimer ==
    /\ \E start \in StartTimes :
          /\ now = start
          /\ game_state = set_game_state(InitialGameState, None, start, 1)
    /\ players = {}
    /\ nextId = 1
    /\ scores = {}
    /\ ps = [s \in PlayerSessions |-> NewPlayerSession]
    /\ as = [a \in AdminSessions |-> NewAdminSession]
    /\ live = {}
    /\ last = NoStep
    /\ clicks = 0
    /\ page = NoPage

\* The wall clock advances by one tick.
FineTick ==
    /\ now < game_state.question_start_time + (TIME_LIMIT + 2) * TicksPerSec
    /\ now' = now + 1
    /\ last' = NoStep
    /\ UNCHANGED <<players, nextId, scores, game_state, ps, as, live, clicks, page>>

\* A page reads the clock and renders the seconds elapsed and left.
ShowTimer ==
    /\ LET g == get_game_state(game_state) IN
       page' = Page("timer", <<>>, TimeElapsed(g.question_start_time, now),
                    TimeLeft(g.question_start_time, now))
    /\ last' = Step("timer", "", "")
    /\ UNCHANGED <<now, players, nextId, scores, game_state, ps, as, live, clicks>>

SpecTimer == InitTimer /\ [][FineTick \/ ShowTimer]_vars

-----------------------------------------------------------------------------
(* Vocabulary of the claims.                                               *)

\* TIME_LIMIT in ticks.
Limit == TIME_LIMIT * TicksPerSec

RowsFor(S, pid, w) == {r \in S : r.player_id = pid /\ r.word_index = w}

\* The texts of AnswerInputs that trimmed and upper-cased spell word w, and
\* the texts that hold nothing but whitespace, both listed by hand.
MatchingInputs(w) ==
    IF w = 0
    THEN { <<"E", "N", "G", "A", "G", "E", "M", "E", "N", "T">>,
           <<" ", "e", "n", "g", "a", "g", "e", "m", "e", "n", "t", " ">> }
    ELSE IF w = 1
    THEN { <<"W", "E", "L", "L", "B", "E", "I", "N", "G">> }
    ELSE {}
BlankInputs == { <<>>, <<" ", "\t">> }

\* This step is session s writing a row of scores.
AutoWrote(s) ==
    last'.op = "auto" /\ last'.who = s /\ last'.res \in {"inserted", "replaced"}
SubmitWrote(s) ==
    last'.op = "submit" /\ last'.who = s /\ last'.res \in {"inserted", "replaced"}
\* This step is the start of a run of s that found its player and read the
\* round state.
RanStep(s) == last'.op = "run" /\ last'.who = s /\ last'.res # "unjoined"

-----------------------------------------------------------------------------
\* C1: the ledger never holds two rows for one (player_id, word_index), and a
\* write for a pair that has a row leaves that pair with the written row
\* alone and every other row as it was.
C1_Unique ==
    \A r1 \in scores, r2 \in scores :
        (r1.player_id = r2.player_id /\ r1.word_index = r2.word_index) => r1 = r2
C1_LastWriteWins ==
    \A s \in PlayerSessions :
        ((AutoWrote(s) \/ SubmitWrote(s)) /\ last'.res = "replaced") =>
            LET pid == ps[s].player_id
                w == ps[s].idx
                written == IF last'.op = "auto"
                           THEN {ScoreRow(pid, w, FALSE, None)}
                           ELSE {ScoreRow(pid, w, TRUE,
                                          Min(Elapsed(ps[s].start, now), Limit)),
                                 ScoreRow(pid, w, FALSE, None)}
            IN  /\ RowsFor(scores, pid, w) # {}
                /\ Cardinality(RowsFor(scores', pid, w)) = 1
                /\ RowsFor(scores', pid, w) \subseteq written
                /\ scores' \ RowsFor(scores', pid, w)
                     = scores \ RowsFor(scores, pid, w)
C1_OneRecordPerKey == [](C1_Unique) /\ [][C1_LastWriteWins]_vars
\* A correct answer has just replaced the row another write left for the pair.
C1_Witness ==
    /\ last.op = "submit" /\ last.res = "replaced"
    /\ \E s \in PlayerSessions :
          /\ last.who = s
          /\ \E r \in scores : /\ r.player_id = ps[s].player_id
                               /\ r.word_index = ps[s].seen_word_index
                               /\ r.correct

\* C2: a submission whose handler reads the clock more than TIME_LIMIT after
\* the round started is never recorded as correct.
C2_LateNeverCorrect ==
    [][\A s \in PlayerSessions :
          (SubmitWrote(s) /\ Elapsed(ps[s].start, now) > Limit) =>
              \A r \in RowsFor(scores', ps[s].player_id, ps[s].idx) : ~r.correct]_vars

\* C3: Next word, taken at index i < TOTAL_WORDS, leaves the round state at
\* (min(i + 1, TOTAL_WORDS), no start time, inactive).
C3_AdvanceClearsStart ==
    [][\A a \in AdminSessions :
          (as[a].pc = "next" /\ as'[a].pc = "idle") =>
              game_state' =
                  [current_word_index |->
                       Min(game_state.current_word_index + 1, TOTAL_WORDS),
                   question_start_time |-> None,
                   is_active |-> 0]]_vars

\* C4: a run that finds the round active, no time left and the word not
\* answered goes on to the auto-record; while the player exists the
\* auto-record leaves (player, word) with the row (incorrect, no time) alone,
\* touches no other row and marks the session answered; and no step of a
\* later autorefresh run of a session that is answered and sees the same word
\* changes the ledger.
C4_AutoRecordOnce ==
    [][\A s \in PlayerSessions :
          LET pid == ps[s].player_id
              w == ps[s].idx
              g == game_state
          IN
          /\ ( /\ RanStep(s)
               /\ g.current_word_index < TOTAL_WORDS
               /\ g.is_active = 1 /\ g.question_start_time # None
               /\ TimeLeft(g.question_start_time, now) = 0
               /\ ~ps'[s].has_answered )
             => ps'[s].pc = "auto"
          /\ (last'.op = "auto" /\ last'.who = s /\ player_exists(players, pid))
             => /\ AutoWrote(s)
                /\ RowsFor(scores', pid, w) = {ScoreRow(pid, w, FALSE, None)}
                /\ scores' \ RowsFor(scores', pid, w) = scores \ RowsFor(scores, pid, w)
                /\ ps'[s].has_answered
          /\ ( /\ last'.who = s
               /\ ~ps[s].click /\ ~ps'[s].click
               /\ ps[s].has_answered
               /\ ps'[s].seen_word_index = ps[s].seen_word_index )
             => (scores' = scores /\ last'.op # "auto")]_vars
\* An autorefresh run has just auto-recorded the word its session sees.
C4_Witness ==
    /\ last.op = "auto" /\ last.res = "inserted"
    /\ \E s \in PlayerSessions :
          /\ last.who = s
          /\ ps[s].pc = "idle" /\ ps[s].has_answered
          /\ TimeLeft(game_state.question_start_time, now) = 0
          /\ ScoreRow(ps[s].player_id, ps[s].seen_word_index, FALSE, None) \in scores

\* C5: a submission that is written at elapsed time e <= TIME_LIMIT leaves
\* (player, word) with the row (correct, e) when its text, trimmed and
\* upper-cased, is the word's answer, and with the row (incorrect, no time)
\* otherwise.
C5_JudgedInTime ==
    [][\A s \in PlayerSessions :
          LET pid == ps[s].player_id
              w == ps[s].idx
              e == Elapsed(ps[s].start, now)
          IN
          (SubmitWrote(s) /\ e <= Limit) =>
              RowsFor(scores', pid, w) =
                  { IF last'.text \in MatchingInputs(w)
                    THEN ScoreRow(pid, w, TRUE, e)
                    ELSE ScoreRow(pid, w, FALSE, None) }]_vars
\* A text that needed trimming and upper-casing has just been recorded as
\* correct, twenty seconds into the round.
C5_Witness ==
    /\ last.op = "submit" /\ last.res = "inserted"
    /\ last.text \in MatchingInputs(0) /\ last.text # Answer(0)
    /\ \E s \in PlayerSessions :
          /\ last.who = s
          /\ \E r \in RowsFor(scores, ps[s].player_id, 0) :
                r.correct /\ 0 < r.time_taken /\ r.time_taken < Limit

\* C6: a run of Reset game ends with the round state initial and with no
\* player, and no score of a player, that was there when it began.
C6_ResetClearsAll ==
    [][\A a \in AdminSessions :
          (as[a].pc \in {"reset", "reset players", "reset state"} /\ as'[a].pc = "idle")
          => /\ game_state' = InitialGameState
             /\ \A p \in players' : p.id >= as[a].mark
             /\ \A r \in scores' : r.player_id >= as[a].mark]_vars

\* C7: current_word_index never decreases in a step other than the last
\* statement of a reset.
C7_IndexMonotone ==
    [][\/ game_state'.current_word_index >= game_state.current_word_index
       \/ \E a \in AdminSessions :
             as[a].pc = "reset state" /\ as'[a].pc = "idle"]_vars

\* C8: a Submit whose text is empty or whitespace changes neither the ledger
\* nor the answered flag of its session.
C8_BlankIsRejected ==
    [][\A s \in PlayerSessions :
          ( /\ last'.op = "submit" /\ last'.who = s /\ last'.res # "disabled"
            /\ last'.text \in BlankInputs )
          => (scores' = scores /\ ps'[s].has_answered = ps[s].has_answered)]_vars
\* C8, amended: a Submit whose text is empty or whitespace is judged like any
\* other text that does not spell the word: the session is answered, and
\* while its player exists (player, word) holds the row (incorrect, no time).
C8_BlankIsIncorrect ==
    [][\A s \in PlayerSessions :
          LET pid == ps[s].player_id
              w == ps[s].idx
          IN
          ( /\ last'.op = "submit" /\ last'.who = s /\ last'.res # "disabled"
            /\ last'.text \in BlankInputs )
          => /\ ps'[s].has_answered
             /\ IF player_exists(players, pid)
                THEN RowsFor(scores', pid, w) = {ScoreRow(pid, w, FALSE, None)}
                ELSE scores' = scores]_vars
\* A whitespace answer has just been recorded as incorrect while the round
\* still had time left.
C8_Witness ==
    /\ last.op = "submit" /\ last.res = "inserted"
    /\ last.text = <<" ", "\t">>
    /\ game_state.is_active = 1
    /\ TimeLeft(game_state.question_start_time, now) > 0
    /\ \E s \in PlayerSessions :
          /\ last.who = s
          /\ ps[s].has_answered
          /\ ScoreRow(ps[s].player_id, ps[s].seen_word_index, FALSE, None) \in scores

\* C9: the run a joined session makes right after Next word observes the new
\* index and leaves the session unanswered.
C9_PollAfterAdvanceResets ==
    [][\A s \in PlayerSessions :
          (last.op = "next" /\ RanStep(s)) =>
              /\ ps'[s].seen_word_index = game_state.current_word_index
              /\ ~ps'[s].has_answered]_vars

\* C10: a session that is answered writes no row.
C10_OneWritePerWord ==
    [][\A s \in PlayerSessions :
          (AutoWrote(s) \/ SubmitWrote(s)) => ~ps[s].has_answered]_vars

\* C11: when a run of Reset game ends, no session holds the id of a player
\* that was registered before the run began and is still registered.
C11_ResetUnjoins ==
    [][\A a \in AdminSessions :
          (as[a].pc \in {"reset", "reset players", "reset state"} /\ as'[a].pc = "idle")
          => \A s \in PlayerSessions :
                (ps[s].player_id # None /\ ps[s].player_id < as[a].mark)
                => ~player_exists(players', ps[s].player_id)]_vars

\* C12: a run that reads the round inactive or without a start time ends
\* there and leaves the ledger as it was; a run goes on to the auto-record or
\* to the Submit button only from a reading of an active round with a start
\* time; and every row a session writes is written by such a run.
C12_NoWriteWhileWaiting ==
    [][\A s \in PlayerSessions :
          LET g == game_state
              waiting == g.is_active = 0 \/ g.question_start_time = None
          IN
          /\ (RanStep(s) /\ waiting) => (ps'[s].pc = "idle" /\ scores' = scores)
          /\ (ps[s].pc = "idle" /\ ps'[s].pc \in {"auto", "button"}) => ~waiting
          /\ (AutoWrote(s) \/ SubmitWrote(s))
             => (ps[s].pc \in {"auto", "button"} /\ ps[s].start # None)]_vars
\* A session that has not answered has just read a stopped round, whose start
\* time is still there, and its run has ended without a row for the word.
C12_Witness ==
    /\ last.op = "run" /\ last.res = "waiting"
    /\ game_state.is_active = 0 /\ game_state.question_start_time # None
    /\ game_state.current_word_index < TOTAL_WORDS
    /\ \E s \in PlayerSessions :
          /\ last.who = s
          /\ ps[s].pc = "idle" /\ ~ps[s].has_answered
          /\ RowsFor(scores, ps[s].player_id, ps[s].seen_word_index) = {}

\* C13: an admin mutation other than Stop round leaves the round state with
\* a start time only if it leaves the round active.
C13_StartOnlyWhileActive ==
    [][(last'.op \in {"start", "next", "reset"})
          => (game_state'.question_start_time # None => game_state'.is_active = 1)]_vars

\* C14: the overall leaderboard holds one row for each registered player and
\* no other, a player's row gives the number of its correct records and the
\* sum of their times (0 and 0 without a correct record), and the rows come
\* by falling number of correct records, equal numbers by rising total time.
C14_Leaderboard ==
    page.op = "leaderboard" =>
        LET q == page.rows IN
        /\ Len(q) = Cardinality(players)
        /\ \A p \in players :
              LET won == {r \in scores : r.player_id = p.id /\ r.correct = TRUE} IN
              \E i \in 1..Len(q) :
                  /\ q[i].name = p.name
                  /\ q[i].correct_answers = Cardinality(won)
                  /\ q[i].total_time = SumTime(won)
                  /\ won = {} => (q[i].correct_answers = 0 /\ q[i].total_time = 0)
        /\ \A i \in 1..Len(q) : \E p \in players : p.name = q[i].name
        /\ \A i \in 1..(Len(q) - 1) :
              \/ q[i].correct_answers > q[i + 1].correct_answers
              \/ /\ q[i].correct_answers = q[i + 1].correct_answers
                 /\ q[i].total_time <= q[i + 1].total_time
\* A ranking of three players: two with the same number of correct records
\* apart by their total times, and behind them a player whose only record
\* is incorrect.
C14_Witness ==
    /\ page.op = "leaderboard"
    /\ Len(page.rows) = 3
    /\ page.rows[1].correct_answers = 1 /\ page.rows[2].correct_answers = 1
    /\ page.rows[1].total_time < page.rows[2].total_time
    /\ page.rows[3].correct_answers = 0 /\ page.rows[3].total_time = 0
    /\ \E p \in players :
          /\ p.name = page.rows[3].name
          /\ \E r \in scores : r.player_id = p.id

\* C15: no player session reads or writes the store between two statements
\* of a run of Reset game.
C15_ResetAtomic ==
    [][\A s \in PlayerSessions :
          ((ps'[s] # ps[s] \/ last'.who = s) /\ last'.res # "disabled")
          => \A a \in AdminSessions : as[a].pc \notin {"reset players", "reset state"}]_vars

\* C16: Stop round leaves the round state as it was but for is_active = 0,
\* and leaves scores and players alone; Start round leaves
\* current_word_index, scores and players alone.
C16_StopFrame ==
    [][\A a \in AdminSessions :
          /\ (as[a].pc = "stop" /\ as'[a].pc = "idle")
             => /\ game_state' = [game_state EXCEPT !.is_active = 0]
                /\ scores' = scores /\ players' = players
          /\ (as[a].pc = "start" /\ as'[a].pc = "idle")
             => /\ game_state' = [game_state EXCEPT !.is_active = 1,
                                                    !.question_start_time = now]
                /\ scores' = scores /\ players' = players]_vars
\* A round has just been stopped: its start time and its word are still
\* there, and so is a row of the ledger.
C16_Witness ==
    /\ last.op = "stop"
    /\ game_state.is_active = 0
    /\ game_state.question_start_time # None
    /\ game_state.current_word_index = 1
    /\ scores # {} /\ players # {}

\* C17: no two players bear one name; a join that finds its name registered
\* leaves players (last_seen included) and the id counter as they were and
\* gives the session the id of the row of that name; a join that inserts
\* gives the session the id of the one row of its name; and an INSERT that
\* fails leaves players alone and the session unjoined.
C17_UniqueName ==
    \A p1 \in players, p2 \in players :
        (p1.name = p2.name \/ p1.id = p2.id) => p1 = p2
C17_JoinStep ==
    \A s \in PlayerSessions :
        /\ (last'.op = "join" /\ last'.who = s)
           => /\ players' = players /\ nextId' = nextId
              /\ \E p \in players : /\ p.name = ps'[s].player_name
                                    /\ p.id = ps'[s].player_id
        /\ (last'.op = "insert" /\ last'.who = s /\ last'.res = "created")
           => /\ \A p \in players : p.name # ps'[s].player_name
              /\ \E p \in players' : /\ p.name = ps'[s].player_name
                                     /\ p.id = ps'[s].player_id
                                     /\ players' = players \cup {p}
        /\ (last'.op = "insert" /\ last'.who = s /\ last'.res = "unique")
           => (players' = players /\ nextId' = nextId /\ ~Joined(s)')
C17_GetOrCreate == [](C17_UniqueName) /\ [][C17_JoinStep]_vars
\* A session has just joined under a name another session registered and
\* still holds: both hold the id of the one row, which was last seen before
\* now.
C17_Witness ==
    /\ last.op = "join" /\ last.res = "found"
    /\ \E s \in PlayerSessions, s2 \in PlayerSessions :
          /\ last.who = s /\ s2 # s
          /\ ps[s2].player_id = ps[s].player_id
          /\ ps[s2].player_name = ps[s].player_name
          /\ \E p \in players :
                /\ p.id = ps[s].player_id /\ p.name = ps[s].player_name
                /\ p.last_seen < now

\* C18: current_word_index stays within 0..TOTAL_WORDS and no row of the
\* ledger is for a word at or past TOTAL_WORDS; a run that reads
\* current_word_index = TOTAL_WORDS ends on the game-over page and leaves the
\* ledger as it was.
C18_Range ==
    /\ game_state.current_word_index \in 0..TOTAL_WORDS
    /\ \A r \in scores : r.word_index \in 0..(TOTAL_WORDS - 1)
C18_GameOverStep ==
    \A s \in PlayerSessions :
        (RanStep(s) /\ game_state.current_word_index >= TOTAL_WORDS)
        => (last'.res = "over" /\ ps'[s].pc = "idle" /\ scores' = scores)
C18_IndexInRange == [](C18_Range) /\ [][C18_GameOverStep]_vars
\* A session that answered the last word has just read the index
\* TOTAL_WORDS and is on the game-over page.
C18_Witness ==
    /\ last.op = "run" /\ last.res = "over"
    /\ game_state.current_word_index = TOTAL_WORDS
    /\ \E s \in PlayerSessions :
          /\ last.who = s
          /\ ps[s].pc = "idle" /\ ps[s].seen_word_index = TOTAL_WORDS
          /\ \E r \in scores : /\ r.player_id = ps[s].player_id
                               /\ r.word_index = TOTAL_WORDS - 1

\* C19: every row of the ledger has a time exactly when it is correct, and
\* the time lies between 0 and TIME_LIMIT.
C19_TimeIffCorrect ==
    \A r \in scores :
        /\ (r.time_taken # None) <=> (r.correct = TRUE)
        /\ (r.time_taken # None) => (0 <= r.time_taken /\ r.time_taken <= Limit)
\* A correct answer handled more than TIME_LIMIT after the start of the round
\* has just been recorded with the time TIME_LIMIT.
C19_Witness ==
    /\ last.op = "submit" /\ last.res \in {"inserted", "replaced"}
    /\ game_state.question_start_time # None
    /\ Elapsed(game_state.question_start_time, now) > Limit
    /\ \E r \in scores : r.correct /\ r.time_taken = Limit

\* C20: for a clock reading e ticks after the start of the round, the page
\* gives as elapsed seconds the whole seconds of e and as seconds left
\* TIME_LIMIT less those, but 0 once they pass TIME_LIMIT; the seconds left
\* are never negative, and are 1 when e lies strictly between 29 and 30
\* seconds.
C20_Timer ==
    [][(last'.op = "timer") =>
          LET e == Elapsed(game_state.question_start_time, now)
              k == page'.time_elapsed
              r == page'.time_left
          IN  /\ k * TicksPerSec <= e /\ e < (k + 1) * TicksPerSec
              /\ r >= 0
              /\ r = IF k <= 30 THEN 30 - k ELSE 0
              /\ (29 * TicksPerSec < e /\ e < 30 * TicksPerSec) => r = 1]_vars
\* The timer has just been rendered between 29 and 30 seconds after a start
\* that did not fall on a whole second.
C20_Witness ==
    /\ last.op = "timer"
    /\ game_state.question_start_time = 1
    /\ 29 * TicksPerSec < Elapsed(game_state.question_start_time, now)
    /\ Elapsed(game_state.question_start_time, now) < 30 * TicksPerSec
    /\ page.time_elapsed = 29 /\ page.time_left = 1

\* C21: a timeout auto-record never writes over a correct row of its
\* (player, word).
C21_AutoKeepsCorrect ==
    [][\A s \in PlayerSessions :
          AutoWrote(s) =>
              \A r \in RowsFor(scores, ps[s].player_id, ps[s].idx) : ~r.correct]_vars

\* The step in which session s, so far without a player, gets its player id.
JoinedStep(s) == ps[s].player_id = None /\ ps'[s].player_id # None

\* C22: after a run that found its player, a session whose answered flag is
\* set has a row in the ledger for its player and the word it has seen, and
\* a session that joins starts with the answered flag unset.
C22_AnsweredHasRow ==
    [][\A s \in PlayerSessions :
          /\ (RanStep(s) /\ ps'[s].has_answered)
             => RowsFor(scores', ps'[s].player_id, ps'[s].seen_word_index) # {}
          /\ JoinedStep(s) => ~ps'[s].has_answered]_vars

\* C23: a round is active only at a word below TOTAL_WORDS.
C23_ActiveBelowTotal ==
    game_state.is_active = 1 => game_state.current_word_index < TOTAL_WORDS

\* The step is the UPDATE of a "Start round" click.
StartStep == last'.op = "start"

\* The step is a run of session s that got as far as computing time_left.
ClockStepOf(s) ==
    /\ last'.op = "run" /\ last'.who = s
    /\ last'.res \in {"timeout", "button", "shown"}

\* C24: an active round has a start time, and it is the one the latest
\* "Start round" wrote: a start writes the current time together with
\* is_active, no other step activates a round or changes the start time of
\* an active one, and a run computes time_left only for an active round,
\* from the start time stored at that moment.
C24_ActiveStartCurrent ==
    /\ [](game_state.is_active = 1 => game_state.question_start_time # None)
    /\ [][/\ StartStep => /\ game_state'.is_active = 1
                         /\ game_state'.question_start_time = now
          /\ (game_state'.is_active = 1 /\ ~StartStep)
             => /\ game_state.is_active = 1
                /\ game_state'.question_start_time = game_state.question_start_time
          /\ \A s \in PlayerSessions :
                ClockStepOf(s)
                => /\ game_state.is_active = 1
                   /\ ps'[s].pc # "idle"
                      => ps'[s].start = game_state.question_start_time]_vars

\* A session is shown the second word's active round, started after the
\* first word's round had been played.
C24_Witness ==
    /\ last.op = "run" /\ last.res = "shown"
    /\ game_state.is_active = 1
    /\ game_state.current_word_index = 1
    /\ game_state.question_start_time > 0
    /\ \E r \in scores : r.word_index = 0

\* Session s writes to the ledger in this step, from a timeout or a submit.
WriteStep(s) == last'.op \in {"auto", "submit"} /\ last'.who = s

\* C25: every row of scores names the id of a row of players, and a write
\* by a session whose player row is gone leaves scores as it was.
C25_NoOrphanScore ==
    /\ [](\A r \in scores : \E p \in players : p.id = r.player_id)
    /\ [][\A s \in PlayerSessions :
             (WriteStep(s) /\ ~\E p \in players : p.id = ps[s].player_id)
             => scores' = scores]_vars

\* A write by a session whose player a reset deleted after the session's
\* check has just been refused.
C25_Witness ==
    /\ last.op \in {"auto", "submit"}
    /\ last.res = "foreign key"
    /\ players = {}
    /\ scores = {}
====
